---- MODULE Spec2Model ----
(***************************************************************************)
(* galaxy-backend: the chat store, the HTTP chat controller, the order     *)
(* controller's chat creation and the realtime gateway, as a state machine.*)
(*                                                                         *)
(* A handler suspends at every await; between two awaits it runs without   *)
(* preemption.  Each handler is therefore one action per await-delimited   *)
(* segment: the segment that ends with the document being loaded, and the  *)
(* segment that starts when the write resolves.                            *)
(*                                                                         *)
(* A Mongoose document remembers what was changed on it since it was       *)
(* loaded.  save() of a loaded document sends only that delta: a push on   *)
(* an array becomes $push (and $inc of the version key __v), an assignment *)
(* of a field becomes $set, an assignment inside an array element becomes  *)
(* a positional $set guarded by the version key read at load time.  save() *)
(* of a document made with new inserts the whole document.                 *)
(***************************************************************************)
EXTENDS Integers, Sequences, FiniteSets, TLC

\* ------------------------------------------------------------ bounds
MaxIds == 2          \* messages created in a run
MaxChats == 3        \* chat documents in the store
MaxPage == 2         \* pages a client asks for
MaxLimit == 3        \* page sizes a client asks for
MaxNow == 4          \* the clock stops here

\* ------------------------------------------------------------ universe
Customers == {"u1", "u2"}
Admins == {"a1"}
Users == Customers \cup Admins
OrderIds == {"o1"}
Reqs == {1, 2}
SocketIds == {1, 2}
ChatIds == 1..MaxChats
Contents == {"hi", ""}
Files == {0, 1}
NoUser == "none"
NoOrder == "none"

role(u) == IF u \in Admins THEN "admin" ELSE "user"

\* ------------------------------------------------------------ state
VARIABLES
  chats,      \* the chats collection: ChatIds -> document (exists = FALSE: no such document)
  orders,     \* the orders collection: OrderIds -> owning customer, NoUser before creation
  req,        \* the handlers in flight, each suspended at its save or update
  last,       \* the handler that finished in the latest step, and its outcome
  emitted,    \* the socket.io events emitted by the latest step
  nextId,     \* the next message _id
  completed,  \* per chat, the message ids in the order their writes completed
  sockets,    \* the socket.io connections: SocketIds -> connection
  userSockets,  \* the Map of services/socketsever.ts: user id -> connection, 0: no entry
  adminSockets, \* the Set of services/socketsever.ts: the admins' connections
  orderDocs,  \* the orders collection: OrderIds -> status and payment.status of the order
  accounts,   \* the users collection: Users -> loginAttempts and lockUntil (0: null)
  now         \* Date.now(), in units of which a lock lasts LockTime

vars == <<chats, orders, req, last, emitted, nextId, completed, sockets,
          userSockets, adminSockets, orderDocs, accounts, now>>

NoChat ==
  [exists |-> FALSE, customerId |-> NoUser, orderId |-> NoOrder, isOrderChat |-> FALSE,
   adminId |-> NoUser, open |-> TRUE, messages |-> <<>>, v |-> 0]

NoDelta == [push |-> <<>>, adminId |-> NoUser, reopen |-> FALSE, readIdx |-> {}, isNew |-> FALSE]

\* an order document before createOrder; "": a field an update does not set
NoOrderDoc == [status |-> "none", payment |-> "none"]
NoUpdate == [status |-> "", payment |-> ""]

\* a user document as signup stores it
NoAccount == [loginAttempts |-> 0, lockUntil |-> 0]

Idle ==
  [op |-> "none", who |-> NoUser, chat |-> 0, order |-> NoOrder, pc |-> "idle",
   local |-> NoChat, delta |-> NoDelta, cust |-> NoUser, mid |-> 0, base |-> 0, count |-> 0,
   page |-> 0, limit |-> 0, list |-> <<>>, upd |-> NoUpdate, acct |-> NoAccount,
   valid |-> FALSE]

\* resp: the HTTP status, or for a realtime handler 200 (its acknowledgement) or 500
\* (its error event); err: the message of the error; data: chat data is returned;
\* wrote: the store was written; pre: the ids of the stored log before the write;
\* count: result.modifiedCount of an updateOne; page, limit: the query of a
\* getChatById; list: the messages it returns
NoOutcome ==
  [op |-> "none", who |-> NoUser, chat |-> 0, order |-> NoOrder, resp |-> 0, err |-> "",
   data |-> FALSE, wrote |-> FALSE, mid |-> 0, base |-> 0, pre |-> <<>>, count |-> 0,
   page |-> 0, limit |-> 0, list |-> <<>>]

\* what a client presents in handshake.auth.token: nothing, a string that is no
\* signed token, or a token signed for an account id ("gone": an account since deleted)
NoToken == [kind |-> "missing", id |-> NoUser]
Tokens ==
  {NoToken, [kind |-> "malformed", id |-> NoUser]}
  \cup {[kind |-> "jwt", id |-> u] : u \in Users \cup {"gone"}}

\* server: which setupSocketServer the connection was made to ("jwt": the one with
\* the io.use middleware, "plain": services/socketsever.ts); userId, role: socket.data;
\* handled: an event of the connection has run its handler
NoSocket ==
  [state |-> "closed", server |-> "none", token |-> NoToken, userId |-> NoUser,
   role |-> "", rooms |-> {}, joining |-> FALSE, handled |-> FALSE, err |-> ""]

Init ==
  /\ sockets = [s \in SocketIds |-> NoSocket]
  /\ userSockets = [u \in Users |-> 0]
  /\ adminSockets = {}
  /\ orderDocs = [o \in OrderIds |-> NoOrderDoc]
  /\ accounts = [u \in Users |-> NoAccount]
  /\ now = 0
  /\ chats = [c \in ChatIds |-> NoChat]
  /\ orders = [o \in OrderIds |-> NoUser]
  /\ req = [r \in Reqs |-> Idle]
  /\ last = NoOutcome
  /\ emitted = {}
  /\ nextId = 1
  /\ completed = [c \in ChatIds |-> <<>>]

\* ------------------------------------------------------------ helpers
Ids(log) == {log[i].id : i \in 1..Len(log)}
IdSeq(log) == [i \in 1..Len(log) |-> log[i].id]
FreeChats == {c \in ChatIds : ~chats[c].exists}
FreshChat == CHOOSE c \in FreeChats : \A d \in FreeChats : c <= d

\* String#trim, on the contents the model sends
trim(s) == IF s = " " THEN "" ELSE IF s = " hi" THEN "hi" ELSE s

\* an event: socket.emit (to = "sender") or io.to(room).emit (to = the room)
\* an event emitted for the connection src: io.to(room).emit reaches every member
\* of the room (echo), socket.to(room).emit every member but src
EventOf(name, to, chat, content, sender, src, echo) ==
  [name |-> name, to |-> to, chat |-> chat, content |-> content, sender |-> sender,
   src |-> src, echo |-> echo]

\* an event emitted with io.to(room).emit, by a handler of no particular connection
Event(name, to, chat, content, sender) == EventOf(name, to, chat, content, sender, 0, TRUE)

\* the connections an event is delivered to
Receivers(e) ==
  {s \in SocketIds : /\ sockets[s].state = "open"
                     /\ e.to \in sockets[s].rooms
                     /\ e.echo \/ s # e.src}

orderRoom(o) == <<"order", o>>
chatRoom(c) == <<"chat", c>>
userRoom(u) == <<"user", u>>
adminRoom == <<"admin-room", 0>>
toSender == <<"sender", 0>>

\* createMessage: a plain object, unread; Mongoose gives it an _id when pushed
createMessage(id, sender, content, files) ==
  [id |-> id, sender |-> sender, content |-> content, read |-> FALSE, atts |-> files]

\* MessageSchema: content is required (an empty string fails) and trimmed
castMessage(m) == [m EXCEPT !.content = trim(m.content)]
validMessage(m) == trim(m.content) # ""

\* ---------------------------------------------- Mongoose save()
\* faulty variants: the loaded array written back whole ($set of messages); the
\* new elements put first ($position: 0)
PushOverwrite(stored, local, pushed) == local.messages \o pushed
PushFront(stored, local, pushed) == pushed \o stored.messages

\* messages.push + save: $push appends to the stored array, whatever was
\* appended to it since the document was loaded
ApplyPush(stored, local, pushed) == stored.messages \o pushed

\* faulty variant: filter in place of forEach, the log becomes its read messages
SetReadFiltered(log, idx) ==
  SelectSeq([i \in 1..Len(log) |-> IF i \in idx THEN [log[i] EXCEPT !.read = TRUE] ELSE log[i]],
            LAMBDA m : m.read)

\* faulty variant: the write negates the flag of the messages at idx
SetReadFlip(log, idx) ==
  [i \in 1..Len(log) |-> IF i \in idx THEN [log[i] EXCEPT !.read = ~log[i].read] ELSE log[i]]

\* the messages at idx get read = true
SetRead(log, idx) ==
  [i \in 1..Len(log) |-> IF i \in idx THEN [log[i] EXCEPT !.read = TRUE] ELSE log[i]]

\* the version guard of save(): a positional $set carries __v in its filter
VersionOk(stored, local, d) == d.readIdx = {} \/ stored.v = local.v

\* the document after save() of a loaded document with delta d
SaveUpdate(stored, local, d) ==
  [stored EXCEPT
     !.messages = SetRead(ApplyPush(stored, local, d.push), d.readIdx),
     !.adminId = IF d.adminId # NoUser THEN d.adminId ELSE stored.adminId,
     !.open = IF d.reopen THEN TRUE ELSE stored.open,
     !.v = IF d.push # <<>> THEN stored.v + 1 ELSE stored.v]

\* the document inserted by save() of a document made with new
SaveInsert(local, d) ==
  [local EXCEPT !.exists = TRUE, !.messages = local.messages \o d.push]

\* ---------------------------------------------- Access Guard
\* faulty variant: no test of role or owner
AllowAll(chat, userId, r) == IF ~chat.exists THEN "Chat not found" ELSE "ok"

\* validateChatAccess: "ok", or the error it throws
validateChatAccess(chat, userId, r) ==
  IF ~chat.exists THEN "Chat not found"
  ELSE IF r = "admin" \/ chat.customerId = userId THEN "ok"
  ELSE "Unauthorized access to this chat"

\* validateOrderAccess: the role parameter is not used
validateOrderAccess(o, userId, r) ==
  IF orders[o] = NoUser THEN "Order not found"
  ELSE IF orders[o] # userId THEN "Unauthorized access to this order"
  ELSE "ok"

\* ---------------------------------------------- handler bookkeeping
\* a request is taken by the first slot that runs no handler
Slot(r) == req[r].pc = "idle" /\ \A x \in Reqs : x < r => req[x].pc # "idle"
Saving(r, ops) == req[r].pc = "saving" /\ req[r].op \in ops

Start(op, who, chat, order) ==
  [Idle EXCEPT !.op = op, !.who = who, !.chat = chat, !.order = order]

Outcome(q, status, err, withData, wrote, pre) ==
  [op |-> q.op, who |-> q.who, chat |-> q.chat, order |-> q.order, resp |-> status,
   err |-> err, data |-> withData, wrote |-> wrote, mid |-> q.mid, base |-> q.base, pre |-> pre,
   count |-> q.count, page |-> q.page, limit |-> q.limit, list |-> q.list]

\* the handler of slot r ends; a handler that ends at once never takes the slot
Finish(r, q, status, err, withData, wrote, pre) ==
  /\ last' = Outcome(q, status, err, withData, wrote, pre)
  /\ req' = [req EXCEPT ![r] = Idle]

\* the handler of slot r suspends at its write
Suspend(r, q) ==
  /\ last' = NoOutcome
  /\ req' = [req EXCEPT ![r] = [q EXCEPT !.pc = "saving"]]

\* what save() throws before it writes: a pushed message failing validation, or
\* the version guard finding the document changed (VersionError)
SaveThrows(stored, local, d) ==
  \/ \E i \in 1..Len(d.push) : ~validMessage(d.push[i])
  \/ ~d.isNew /\ ~VersionOk(stored, local, d)

Cast(d) == [d EXCEPT !.push = [i \in 1..Len(d.push) |-> castMessage(d.push[i])]]

roomName(chat, c) ==
  IF chat.isOrderChat /\ chat.orderId # NoOrder THEN orderRoom(chat.orderId) ELSE chatRoom(c)

senderOf(who) == IF role(who) = "admin" THEN "admin" ELSE "user"

\* ---------------------------------------------- HTTP: createGeneralChat
createGeneralChat(r, who, message) ==
  /\ Slot(r)
  /\ LET q == Start("createGeneralChat", who, 0, NoOrder)
         msg == createMessage(nextId, "user", message, 0)
         d == Cast([NoDelta EXCEPT !.push = <<msg>>, !.isNew = TRUE])
         doc == [NoChat EXCEPT !.customerId = who, !.isOrderChat = FALSE]
     IN IF message = ""
        THEN /\ Finish(r, q, 400, "Initial message is required", FALSE, FALSE, <<>>)
             /\ emitted' = {}
             /\ UNCHANGED <<chats, completed, nextId>>
        ELSE /\ nextId <= MaxIds
             /\ FreeChats # {}
             /\ nextId' = nextId + 1
             /\ IF SaveThrows(doc, doc, d)
                THEN /\ Finish(r, q, 500, "validation", FALSE, FALSE, <<>>)
                     /\ emitted' = {}
                     /\ UNCHANGED <<chats, completed>>
                ELSE /\ chats' = [chats EXCEPT ![FreshChat] = SaveInsert(doc, d)]
                     /\ completed' = [completed EXCEPT ![FreshChat] = IdSeq(d.push)]
                     /\ emitted' = {Event("new-chat", adminRoom, FreshChat, "", "user")}
                     /\ Finish(r, [q EXCEPT !.chat = FreshChat, !.mid = nextId],
                               201, "", TRUE, TRUE, <<>>)
  /\ UNCHANGED <<orders, sockets, userSockets, adminSockets, orderDocs, accounts, now>>

\* ---------------------------------------------- HTTP: getChatById, getAttachment
\* page and limit of a getChatById request that gives none
DefaultPage == 1
DefaultLimit == 50

\* faulty variant: the n oldest messages
sliceHead(log, skip, n) == SubSeq(log, 1, IF n > Len(log) THEN Len(log) ELSE n)

\* $slice: [skip, n] with skip < 0: n elements from the one -skip places before
\* the end, from the first element when the array is shorter than that
slice(log, skip, n) ==
  LET from == IF -skip >= Len(log) THEN 1 ELSE Len(log) + skip + 1
      to == IF from + n - 1 > Len(log) THEN Len(log) ELSE from + n - 1
  IN SubSeq(log, from, to)

getChatById(r, who, c, page, limit) ==
  /\ Slot(r)
  /\ LET q == [Start("getChatById", who, c, NoOrder) EXCEPT !.page = page, !.limit = limit]
         acc == validateChatAccess(chats[c], who, role(who))
     IN IF acc # "ok"
        THEN Finish(r, q, 500, acc, FALSE, FALSE, <<>>)
        ELSE Finish(r, [q EXCEPT !.list = slice(chats[c].messages, -(page * limit), limit)],
                    200, "", TRUE, FALSE, <<>>)
  /\ emitted' = {}
  /\ UNCHANGED <<chats, orders, nextId, completed, sockets, userSockets, adminSockets,
                 orderDocs, accounts, now>>

getAttachment(r, who, c, messageId, attachmentIndex) ==
  /\ Slot(r)
  /\ LET q == Start("getAttachment", who, c, NoOrder)
         acc == validateChatAccess(chats[c], who, role(who))
         log == chats[c].messages
     IN IF acc # "ok"
        THEN Finish(r, q, 500, acc, FALSE, FALSE, <<>>)
        ELSE IF \E i \in 1..Len(log) : log[i].id = messageId /\ attachmentIndex < log[i].atts
        THEN Finish(r, q, 200, "", TRUE, FALSE, <<>>)
        ELSE Finish(r, q, 404, "Attachment not found", FALSE, FALSE, <<>>)
  /\ emitted' = {}
  /\ UNCHANGED <<chats, orders, nextId, completed, sockets, userSockets, adminSockets,
                 orderDocs, accounts, now>>

\* ---------------------------------------------- HTTP: sendMessageToChatById
\* up to the call of save()
sendMessageToChatById_load(r, who, c, content, files) ==
  /\ Slot(r)
  /\ nextId <= MaxIds
  /\ LET q == Start("sendMessageToChatById", who, c, NoOrder)
         acc == validateChatAccess(chats[c], who, role(who))
         msg == createMessage(nextId, senderOf(who), content, files)
     IN IF content = "" /\ files = 0
        THEN /\ Finish(r, q, 400, "Message content or attachments are required", FALSE, FALSE, <<>>)
             /\ UNCHANGED nextId
        ELSE IF acc # "ok"
        THEN /\ Finish(r, q, 500, acc, FALSE, FALSE, <<>>)
             /\ UNCHANGED nextId
        ELSE /\ Suspend(r, [q EXCEPT !.local = chats[c], !.mid = nextId,
                                     !.base = Len(chats[c].messages),
                                     !.delta = [NoDelta EXCEPT
                                        !.push = <<msg>>,
                                        !.adminId = IF role(who) = "admin" /\ chats[c].adminId = NoUser
                                                    THEN who ELSE NoUser]])
             /\ nextId' = nextId + 1
  /\ emitted' = {}
  /\ UNCHANGED <<chats, orders, completed, sockets, userSockets, adminSockets, orderDocs,
                 accounts, now>>

\* save() resolves: the message is broadcast to the chat's room, the chat returned
sendMessageToChatById_save(r) ==
  /\ Saving(r, {"sendMessageToChatById"})
  /\ LET q == req[r]
         c == q.chat
         d == Cast(q.delta)
         pre == IdSeq(chats[c].messages)
     IN IF SaveThrows(chats[c], q.local, d)
        THEN /\ Finish(r, q, 500, "save", FALSE, FALSE, pre)
             /\ emitted' = {}
             /\ UNCHANGED <<chats, completed>>
        ELSE /\ chats' = [chats EXCEPT ![c] = SaveUpdate(chats[c], q.local, d)]
             /\ completed' = [completed EXCEPT ![c] = @ \o IdSeq(d.push)]
             /\ emitted' = {Event("new-message", roomName(q.local, c), c,
                                  q.delta.push[1].content, q.delta.push[1].sender)}
             /\ Finish(r, q, 200, "", TRUE, TRUE, pre)
  /\ UNCHANGED <<orders, nextId, sockets, userSockets, adminSockets, orderDocs, accounts, now>>

\* ---------------------------------------------- HTTP: markMessagesAsRead
\* faulty variant: the reader's own role
sameRole(r) == IF r = "admin" THEN "admin" ELSE "user"

otherRole(r) == IF r = "admin" THEN "user" ELSE "admin"

\* faulty variant: every message of the sender type, read or not
AllFrom(log, senderType) == {i \in 1..Len(log) : log[i].sender = senderType}

\* the elements whose read flag changes
Unread(log, senderType) == {i \in 1..Len(log) : log[i].sender = senderType /\ ~log[i].read}

markMessagesAsRead_load(r, who, c) ==
  /\ Slot(r)
  /\ LET q == Start("markMessagesAsRead", who, c, NoOrder)
         acc == validateChatAccess(chats[c], who, role(who))
     IN IF acc # "ok"
        THEN Finish(r, q, 500, acc, FALSE, FALSE, <<>>)
        ELSE Suspend(r, [q EXCEPT !.local = chats[c],
                                  !.delta = [NoDelta EXCEPT
                                     !.readIdx = Unread(chats[c].messages, otherRole(role(who)))]])
  /\ emitted' = {}
  /\ UNCHANGED <<chats, orders, nextId, completed, sockets, userSockets, adminSockets,
                 orderDocs, accounts, now>>

\* save() resolves; messages-read is emitted whatever was changed
markMessagesAsRead_save(r) ==
  /\ Saving(r, {"markMessagesAsRead"})
  /\ LET q == req[r]
         c == q.chat
         pre == IdSeq(chats[c].messages)
     IN IF SaveThrows(chats[c], q.local, q.delta)
        THEN /\ Finish(r, q, 500, "save", FALSE, FALSE, pre)
             /\ emitted' = {}
             /\ UNCHANGED chats
        ELSE /\ chats' = [chats EXCEPT ![c] = SaveUpdate(chats[c], q.local, q.delta)]
             /\ emitted' = {Event("messages-read", roomName(q.local, c), c, "", role(q.who))}
             /\ Finish(r, q, 200, "", TRUE, q.delta.readIdx # {}, pre)
  /\ UNCHANGED <<orders, nextId, completed, sockets, userSockets, adminSockets, orderDocs,
                 accounts, now>>

\* ---------------------------------------------- HTTP: the order-keyed handlers
\* findOne({ orderId, isOrderChat: true }): the first such document, 0 if none
OrderChats(o) == {c \in ChatIds : chats[c].exists /\ chats[c].orderId = o /\ chats[c].isOrderChat}
findOneOrderChat(o) ==
  IF OrderChats(o) = {} THEN 0
  ELSE CHOOSE c \in OrderChats(o) : \A d \in OrderChats(o) : c <= d

\* new ChatModel({ orderId, customerId: order.customerId, isOrderChat: true, messages: [] })
newOrderChat(o) ==
  [NoChat EXCEPT !.orderId = o, !.customerId = orders[o], !.isOrderChat = TRUE]

getChatByOrder_find(r, who, o) ==
  /\ Slot(r)
  /\ LET q == Start("getChatByOrder", who, 0, o)
         acc == validateOrderAccess(o, who, role(who))
         c == findOneOrderChat(o)
     IN IF acc # "ok"
        THEN Finish(r, q, 500, acc, FALSE, FALSE, <<>>)
        ELSE IF c # 0
        THEN Finish(r, [q EXCEPT !.chat = c], 200, "", TRUE, FALSE, <<>>)
        ELSE Suspend(r, [q EXCEPT !.local = newOrderChat(o),
                                  !.delta = [NoDelta EXCEPT !.isNew = TRUE]])
  /\ emitted' = {}
  /\ UNCHANGED <<chats, orders, nextId, completed, sockets, userSockets, adminSockets,
                 orderDocs, accounts, now>>

\* newChat.save() resolves: the new chat is inserted and returned
getChatByOrder_save(r) ==
  /\ Saving(r, {"getChatByOrder"})
  /\ FreeChats # {}
  /\ LET q == req[r]
     IN /\ chats' = [chats EXCEPT ![FreshChat] = SaveInsert(q.local, q.delta)]
        /\ Finish(r, [q EXCEPT !.chat = FreshChat], 200, "", TRUE, TRUE, <<>>)
  /\ emitted' = {}
  /\ UNCHANGED <<orders, nextId, completed, sockets, userSockets, adminSockets, orderDocs,
                 accounts, now>>

\* sendMessage and sendMessageWithAttachment, up to the call of save():
\* checkContent and assignAdmin are what sendMessage does and the other does not
orderSend_find(op, r, who, o, content, files, checkContent, assignAdmin) ==
  /\ Slot(r)
  /\ nextId <= MaxIds
  /\ LET q == Start(op, who, 0, o)
         acc == validateOrderAccess(o, who, role(who))
         c == findOneOrderChat(o)
         doc == IF c # 0 THEN chats[c] ELSE newOrderChat(o)
         msg == createMessage(nextId, senderOf(who), content, files)
         admin == IF assignAdmin /\ role(who) = "admin" /\ doc.adminId = NoUser THEN who ELSE NoUser
     IN IF checkContent /\ content = ""
        THEN /\ Finish(r, q, 400, "Order ID and message content are required", FALSE, FALSE, <<>>)
             /\ UNCHANGED nextId
        ELSE IF acc # "ok"
        THEN /\ Finish(r, q, 500, acc, FALSE, FALSE, <<>>)
             /\ UNCHANGED nextId
        ELSE /\ Suspend(r, [q EXCEPT !.chat = c, !.mid = nextId,
                                     !.base = Len(doc.messages),
                                     !.local = IF c # 0 THEN doc
                                               ELSE [doc EXCEPT !.adminId = admin],
                                     !.delta = [NoDelta EXCEPT
                                        !.push = <<msg>>, !.isNew = (c = 0),
                                        !.adminId = IF c # 0 THEN admin ELSE NoUser]])
             /\ nextId' = nextId + 1
  /\ emitted' = {}
  /\ UNCHANGED <<chats, orders, completed, sockets, userSockets, adminSockets, orderDocs,
                 accounts, now>>

sendMessage_find(r, who, o, content) ==
  orderSend_find("sendMessage", r, who, o, content, 0, TRUE, TRUE)

sendMessageWithAttachment_find(r, who, o, content, files) ==
  orderSend_find("sendMessageWithAttachment", r, who, o, content, files, FALSE, FALSE)

\* save() resolves: an insert for a document made with new, an update otherwise;
\* the message is broadcast to the room of the order
orderSend_save(r) ==
  /\ Saving(r, {"sendMessage", "sendMessageWithAttachment"})
  /\ LET q == req[r]
         d == Cast(q.delta)
         c == IF d.isNew THEN FreshChat ELSE q.chat
         stored == IF d.isNew THEN q.local ELSE chats[c]
         pre == IF d.isNew THEN <<>> ELSE IdSeq(chats[c].messages)
     IN /\ d.isNew => FreeChats # {}
        /\ IF SaveThrows(stored, q.local, d)
           THEN /\ Finish(r, q, 500, "save", FALSE, FALSE, pre)
                /\ emitted' = {}
                /\ UNCHANGED <<chats, completed>>
           ELSE /\ chats' = [chats EXCEPT ![c] =
                               IF d.isNew THEN SaveInsert(q.local, d)
                               ELSE SaveUpdate(chats[c], q.local, d)]
                /\ completed' = [completed EXCEPT ![c] = @ \o IdSeq(d.push)]
                /\ emitted' = {Event("new-message", orderRoom(q.order), c,
                                     q.delta.push[1].content, q.delta.push[1].sender)}
                /\ Finish(r, [q EXCEPT !.chat = c], 200, "", TRUE, TRUE, pre)
  /\ UNCHANGED <<orders, nextId, sockets, userSockets, adminSockets, orderDocs, accounts, now>>

\* ---------------------------------------------- order controller: createOrder
FreeOrders == {o \in OrderIds : orders[o] = NoUser}

\* new ChatModel({ orderId, customerId, messages: [system message] }): isOrderChat
\* is not given and takes the schema's default
schemaDefaultIsOrderChat == FALSE

\* the transaction commits the order and its chat together; new-chat goes to every
\* connection; the confirmation mail is sent after the commit and may fail
createOrder(r, customerId, mailOk) ==
  /\ Slot(r)
  /\ nextId <= MaxIds
  /\ FreeOrders # {}
  /\ FreeChats # {}
  /\ LET o == CHOOSE x \in FreeOrders : TRUE
         c == FreshChat
         sys == [id |-> nextId, sender |-> "system", content |-> "Chat started",
                 read |-> TRUE, atts |-> 0]
         doc == [NoChat EXCEPT !.orderId = o, !.customerId = customerId,
                               !.isOrderChat = schemaDefaultIsOrderChat]
         q == [Start("createOrder", customerId, c, o) EXCEPT !.mid = nextId]
     IN /\ orders' = [orders EXCEPT ![o] = customerId]
        /\ orderDocs' = [orderDocs EXCEPT ![o] = [status |-> "pending", payment |-> "pending"]]
        /\ chats' = [chats EXCEPT ![c] =
                       SaveInsert(doc, [NoDelta EXCEPT !.push = <<sys>>, !.isNew = TRUE])]
        /\ completed' = [completed EXCEPT ![c] = <<nextId>>]
        /\ emitted' = {Event("new-chat", <<"all", 0>>, c, "", "system")}
        /\ IF mailOk
           THEN Finish(r, q, 201, "", FALSE, TRUE, <<>>)
           ELSE Finish(r, q, 500, "Failed to create order", FALSE, TRUE, <<>>)
  /\ nextId' = nextId + 1
  /\ UNCHANGED <<sockets, userSockets, adminSockets, accounts, now>>

\* ---------------------------------------------- order controller: status
Statuses == {"pending", "processing", "shipped", "delivered", "cancelled", "refunded"}

validTransitions(status) ==
  CASE status = "pending" -> {"processing", "cancelled"}
    [] status = "processing" -> {"shipped", "cancelled"}
    [] status = "shipped" -> {"delivered", "cancelled"}
    [] status = "delivered" -> {"refunded"}
    [] OTHER -> {}

\* findByIdAndUpdate(orderId, updateData): $set of the fields updateData names
applyUpdate(doc, upd) ==
  [status |-> IF upd.status # "" THEN upd.status ELSE doc.status,
   payment |-> IF upd.payment # "" THEN upd.payment ELSE doc.payment]

\* updateOrder up to findByIdAndUpdate: the transition is checked against the
\* status of the document findById returned
updateOrder_find(r, who, o, status, paymentStatus) ==
  /\ Slot(r)
  /\ LET q == Start("updateOrder", who, 0, o)
     IN IF orders[o] = NoUser
        THEN Finish(r, q, 404, "Order not found", FALSE, FALSE, <<>>)
        ELSE IF status # "" /\ status \notin validTransitions(orderDocs[o].status)
        THEN Finish(r, q, 400, "Invalid status transition", FALSE, FALSE, <<>>)
        ELSE Suspend(r, [q EXCEPT !.upd = [status |-> status, payment |-> paymentStatus]])
  /\ emitted' = {}
  /\ UNCHANGED <<chats, orders, nextId, completed, sockets, userSockets, adminSockets,
                 orderDocs, accounts, now>>

\* confirmPayment up to findByIdAndUpdate: a pending payment becomes received, and
\* an order found pending is set to processing
confirmPayment_find(r, who, o) ==
  /\ Slot(r)
  /\ LET q == Start("confirmPayment", who, 0, o)
     IN IF orders[o] = NoUser
        THEN Finish(r, q, 404, "Order not found", FALSE, FALSE, <<>>)
        ELSE IF orderDocs[o].payment # "pending"
        THEN Finish(r, q, 400, "Invalid payment confirmation", FALSE, FALSE, <<>>)
        ELSE Suspend(r, [q EXCEPT !.upd =
                           [status |-> IF orderDocs[o].status = "pending"
                                       THEN "processing" ELSE "",
                            payment |-> "received"]])
  /\ emitted' = {}
  /\ UNCHANGED <<chats, orders, nextId, completed, sockets, userSockets, adminSockets,
                 orderDocs, accounts, now>>

\* findByIdAndUpdate resolves
orderUpdate(r) ==
  /\ Saving(r, {"updateOrder", "confirmPayment"})
  /\ orderDocs' = [orderDocs EXCEPT ![req[r].order] = applyUpdate(@, req[r].upd)]
  /\ Finish(r, req[r], 200, "", FALSE, TRUE, <<>>)
  /\ emitted' = {}
  /\ UNCHANGED <<chats, orders, nextId, completed, sockets, userSockets, adminSockets,
                 accounts, now>>

\* ---------------------------------------------- user controller: login
\* failed attempts that lock an account
MaxAttempts == 5

\* 15 * 60 * 1000 ms, in units of the clock
LockTime == 2

\* user.lockUntil && user.lockUntil > new Date()
locked(user) == user.lockUntil # 0 /\ user.lockUntil > now

\* login up to bcrypt.compare: a locked account is answered 423
login_find(r, who, valid) ==
  /\ Slot(r)
  /\ LET q == Start("login", who, 0, NoOrder)
     IN IF locked(accounts[who])
        THEN Finish(r, q, 423, "Too many attempts", FALSE, FALSE, <<>>)
        ELSE Suspend(r, [q EXCEPT !.acct = accounts[who], !.valid = valid])
  /\ emitted' = {}
  /\ UNCHANGED <<chats, orders, nextId, completed, sockets, userSockets, adminSockets,
                 orderDocs, accounts, now>>

\* the loaded document after a wrong password: one more attempt, locked from the
\* fifth on
failedLogin(user) ==
  [loginAttempts |-> user.loginAttempts + 1,
   lockUntil |-> IF user.loginAttempts + 1 >= MaxAttempts THEN now + LockTime
                 ELSE user.lockUntil]

\* the loaded document after the right password
passedLogin(user) == [loginAttempts |-> 0, lockUntil |-> 0]

\* user.save(): $set of the fields that differ from the loaded document
saveUser(stored, loaded, user) ==
  [loginAttempts |-> IF user.loginAttempts # loaded.loginAttempts
                     THEN user.loginAttempts ELSE stored.loginAttempts,
   lockUntil |-> IF user.lockUntil # loaded.lockUntil
                 THEN user.lockUntil ELSE stored.lockUntil]

\* bcrypt.compare has resolved and save() resolves
login_save(r) ==
  /\ Saving(r, {"login"})
  /\ LET q == req[r]
         user == IF q.valid THEN passedLogin(q.acct) ELSE failedLogin(q.acct)
     IN /\ accounts' = [accounts EXCEPT ![q.who] = saveUser(@, q.acct, user)]
        /\ IF q.valid
           THEN Finish(r, q, 200, "", FALSE, TRUE, <<>>)
           ELSE Finish(r, q, 400, "Invalid email or password", FALSE, TRUE, <<>>)
  /\ emitted' = {}
  /\ UNCHANGED <<chats, orders, nextId, completed, sockets, userSockets, adminSockets,
                 orderDocs, now>>

\* time passes
Tick ==
  /\ now < MaxNow
  /\ now' = now + 1
  /\ last' = NoOutcome
  /\ emitted' = {}
  /\ UNCHANGED <<chats, orders, req, nextId, completed, sockets, userSockets, adminSockets,
                 orderDocs, accounts>>

\* ---------------------------------------------- realtime: send-message
\* faulty variant: no security check
rtNoCheck(chat, userId, r) == TRUE

\* the security check of the realtime handlers
rtAllowed(chat, userId, r) == r = "admin" \/ chat.customerId = userId

\* faulty variant: the error sent to the room of the chat
RtErrorRoom(r, q, err, pre) ==
  /\ Finish(r, q, 500, err, FALSE, FALSE, pre)
  /\ emitted' = {Event("error", chatRoom(q.chat), q.chat, "", role(q.who))}

\* socket.emit("error", ...): to the connection of the handler
RtError(r, q, err, pre) ==
  /\ Finish(r, q, 500, err, FALSE, FALSE, pre)
  /\ emitted' = {Event("error", toSender, q.chat, "", role(q.who))}

\* up to the call of save(); dOrder and dCustomer are data.orderId and data.customerId
OnSendMessage_load(r, who, c, message, dOrder, dCustomer) ==
  /\ Slot(r)
  /\ nextId <= MaxIds
  /\ LET q == Start("send-message", who, c, dOrder)
         msg == createMessage(nextId, senderOf(who), message, 0)
     IN IF message = "" \/ dOrder = NoOrder
        THEN /\ RtError(r, q, "Invalid message data", <<>>)
             /\ UNCHANGED nextId
        ELSE IF ~chats[c].exists
        THEN /\ RtError(r, q, "Chat not found", <<>>)
             /\ UNCHANGED nextId
        ELSE IF ~rtAllowed(chats[c], who, role(who))
        THEN /\ RtError(r, q, "Unauthorized to send to this chat", <<>>)
             /\ UNCHANGED nextId
        ELSE /\ Suspend(r, [q EXCEPT !.local = chats[c], !.mid = nextId,
                                     !.base = Len(chats[c].messages), !.cust = dCustomer,
                                     !.delta = [NoDelta EXCEPT
                                        !.push = <<msg>>,
                                        !.reopen = (~chats[c].open /\ role(who) # "admin")]])
             /\ emitted' = {}
             /\ nextId' = nextId + 1
  /\ UNCHANGED <<chats, orders, completed, sockets, userSockets, adminSockets, orderDocs,
                 accounts, now>>

\* save() resolves: new-message to the room of data.orderId, the notification,
\* message-sent to the sender
OnSendMessage_save(r) ==
  /\ Saving(r, {"send-message"})
  /\ LET q == req[r]
         c == q.chat
         m == q.delta.push[1]
         pre == IdSeq(chats[c].messages)
     IN IF SaveThrows(chats[c], q.local, q.delta)
        THEN /\ RtError(r, q, "Failed to send message", pre)
             /\ UNCHANGED <<chats, completed>>
        ELSE /\ chats' = [chats EXCEPT ![c] = SaveUpdate(chats[c], q.local, q.delta)]
             /\ completed' = [completed EXCEPT ![c] = @ \o IdSeq(q.delta.push)]
             /\ emitted' =
                  {Event("new-message", orderRoom(q.order), c, m.content, m.sender),
                   Event("message-sent", toSender, c, "", m.sender)}
                  \cup (IF role(q.who) # "admin"
                        THEN {Event("new-chat-notification", adminRoom, c, m.content, m.sender)}
                        ELSE IF q.cust # NoUser
                        THEN {Event("new-chat-notification", userRoom(q.cust), c, m.content, m.sender)}
                        ELSE {})
             /\ Finish(r, q, 200, "", FALSE, TRUE, pre)
  /\ UNCHANGED <<orders, nextId, sockets, userSockets, adminSockets, orderDocs, accounts, now>>

\* ---------------------------------------------- realtime: mark-as-read
OnMarkAsRead_load(r, who, c) ==
  /\ Slot(r)
  /\ LET q == Start("mark-as-read", who, c, NoOrder)
     IN IF ~chats[c].exists
        THEN RtError(r, q, "Chat not found", <<>>)
        ELSE IF ~rtAllowed(chats[c], who, role(who))
        THEN RtError(r, q, "Unauthorized to access this chat", <<>>)
        ELSE /\ Suspend(r, [q EXCEPT !.local = chats[c]])
             /\ emitted' = {}
  /\ UNCHANGED <<chats, orders, nextId, completed, sockets, userSockets, adminSockets,
                 orderDocs, accounts, now>>

\* result.modifiedCount of updateOne({ _id }, ...): the number of documents changed
modifiedCount(idx) == IF idx = {} THEN 0 ELSE 1

\* updateOne with arrayFilters: every element of the stored array that is from the
\* other role and unread; modifiedCount > 0 when there is one
OnMarkAsRead_update(r) ==
  /\ Saving(r, {"mark-as-read"})
  /\ LET q == req[r]
         c == q.chat
         idx == Unread(chats[c].messages, otherRole(role(q.who)))
     IN /\ chats' = [chats EXCEPT ![c].messages = SetRead(@, idx)]
        /\ emitted' =
             {Event("marked-read", toSender, c, "", role(q.who))}
             \cup (IF modifiedCount(idx) > 0
                   THEN {Event("messages-read", orderRoom(q.local.orderId), c, "", role(q.who))}
                   ELSE {})
        /\ Finish(r, [q EXCEPT !.count = modifiedCount(idx)], 200, "", FALSE, idx # {},
                  IdSeq(chats[c].messages))
  /\ UNCHANGED <<orders, nextId, completed, sockets, userSockets, adminSockets, orderDocs,
                 accounts, now>>

\* ---------------------------------------------- realtime: the store failing
\* the message of the catch block of a realtime handler
Failed(op) ==
  IF op = "send-message" THEN "Failed to send message" ELSE "Failed to mark messages as read"

\* ChatModel.findById rejects (the store cannot be reached): the handler's catch
OnFindRejects(r, op, who, c) ==
  /\ Slot(r)
  /\ op \in {"send-message", "mark-as-read"}
  /\ RtError(r, Start(op, who, c, NoOrder), Failed(op), <<>>)
  /\ UNCHANGED <<chats, orders, nextId, completed, sockets, userSockets, adminSockets,
                 orderDocs, accounts, now>>

\* chat.save() or ChatModel.updateOne rejects: nothing is written, the catch runs
OnWriteRejects(r) ==
  /\ Saving(r, {"send-message", "mark-as-read"})
  /\ RtError(r, req[r], Failed(req[r].op), IdSeq(chats[req[r].chat].messages))
  /\ UNCHANGED <<chats, orders, nextId, completed, sockets, userSockets, adminSockets,
                 orderDocs, accounts, now>>

\* ---------------------------------------------- realtime: the relays
\* the handler of a relay runs on no slot: it never suspends
Relayed(op, who, c, o) == Outcome(Start(op, who, c, o), 200, "", FALSE, FALSE, <<>>)

\* services/socketsever.ts "new-message": relays what the client sent to the room
\* the client names; the store is neither read nor written
OnNewMessage(claimedId, claimedRole, o, c, content) ==
  /\ (o = NoOrder) # (c = 0)
  /\ emitted' = {Event("new-message", IF o # NoOrder THEN orderRoom(o) ELSE chatRoom(c),
                       c, content, claimedRole)}
  /\ last' = Relayed("new-message", claimedId, c, o)
  /\ UNCHANGED <<chats, orders, req, nextId, completed, sockets, userSockets, adminSockets,
                 orderDocs, accounts, now>>

\* the first revision of "send-message": the same, to the room of data.orderId
OnSendMessageRelay(who, o, c, message) ==
  /\ emitted' = {Event("new-message", orderRoom(o), c, message, role(who)),
                 IF role(who) # "admin"
                 THEN Event("new-chat-notification", adminRoom, c, message, role(who))
                 ELSE Event("new-chat-notification", userRoom(NoUser), c, message, "admin")}
  /\ last' = Relayed("send-message-relay", who, c, o)
  /\ UNCHANGED <<chats, orders, req, nextId, completed, sockets, userSockets, adminSockets,
                 orderDocs, accounts, now>>

\* ---------------------------------------------- the gateway: connections
Quiet ==
  /\ emitted' = {}
  /\ last' = NoOutcome
  /\ UNCHANGED <<chats, orders, req, nextId, completed>>

\* a Socket object is new: no registry holds it when its connection is made
Fresh(s) ==
  /\ sockets[s].state = "closed"
  /\ s \notin adminSockets
  /\ \A u \in Users : userSockets[u] # s

\* jwt.verify: the decoded id, or NoUser when it throws
verify(token) == IF token.kind = "jwt" THEN token.id ELSE NoUser

\* usermodel.findById
findById(id) == IF id \in Users THEN id ELSE NoUser

\* the account a credential resolves to, NoUser when it resolves to none
accountOf(token) == findById(verify(token))

Reject(s, token, err) ==
  sockets' = [sockets EXCEPT ![s] = [NoSocket EXCEPT !.state = "rejected", !.server = "jwt",
                                                      !.token = token, !.err = err]]

\* io.use middleware, then the connection handler up to joinUserChatRooms's await
authMiddleware(s, token) ==
  /\ Fresh(s)
  /\ IF token.kind = "missing"
     THEN Reject(s, token, "Authentication error: Token required")
     ELSE IF verify(token) = NoUser
     THEN Reject(s, token, "Authentication error: Invalid token")
     ELSE IF findById(verify(token)) = NoUser
     THEN Reject(s, token, "Authentication error: User not found")
     ELSE LET u == findById(verify(token))
          IN sockets' = [sockets EXCEPT ![s] =
               [NoSocket EXCEPT !.state = "open", !.server = "jwt", !.token = token,
                                !.userId = u, !.role = role(u), !.joining = TRUE,
                                !.rooms = {userRoom(u)}
                                          \cup (IF role(u) = "admin" THEN {adminRoom} ELSE {})]]
  /\ Quiet
  /\ UNCHANGED <<userSockets, adminSockets, orderDocs, accounts, now>>

\* joinUserChatRooms, after ChatModel.find resolves: the room of each chat's orderId
joinUserChatRooms(s) ==
  /\ sockets[s].state = "open"
  /\ sockets[s].joining
  /\ LET mine == {c \in ChatIds : /\ chats[c].exists
                                  /\ \/ sockets[s].role = "admin"
                                     \/ chats[c].customerId = sockets[s].userId}
     IN sockets' = [sockets EXCEPT ![s].joining = FALSE,
                                   ![s].rooms = @ \cup {orderRoom(chats[c].orderId) : c \in mine}]
  /\ Quiet
  /\ UNCHANGED <<userSockets, adminSockets, orderDocs, accounts, now>>

\* faulty variant: the connection closed
abortJoin(sock) == NoSocket

\* the catch of joinUserChatRooms: the error is logged, the socket left as it is
caughtJoin(sock) ==
  [sock EXCEPT !.joining = FALSE, !.err = "Error joining user chat rooms"]

\* joinUserChatRooms when ChatModel.find rejects: no chat room is joined
joinUserChatRooms_catch(s) ==
  /\ sockets[s].state = "open"
  /\ sockets[s].joining
  /\ sockets' = [sockets EXCEPT ![s] = caughtJoin(sockets[s])]
  /\ Quiet
  /\ UNCHANGED <<userSockets, adminSockets, orderDocs, accounts, now>>

\* "join-order-chat" of the jwt server
OnJoinOrderChat(s, o) ==
  /\ sockets[s].state = "open"
  /\ sockets[s].server = "jwt"
  /\ sockets' = [sockets EXCEPT ![s].rooms = @ \cup {orderRoom(o)}, ![s].handled = TRUE]
  /\ Quiet
  /\ UNCHANGED <<userSockets, adminSockets, orderDocs, accounts, now>>

\* services/socketsever.ts io.on("connection"): the handshake is not looked at
OnConnection(s, token) ==
  /\ Fresh(s)
  /\ sockets' = [sockets EXCEPT ![s] =
       [NoSocket EXCEPT !.state = "open", !.server = "plain", !.token = token]]
  /\ Quiet
  /\ UNCHANGED <<userSockets, adminSockets, orderDocs, accounts, now>>

\* "authenticate": socket.data is what the client sent
OnAuthenticate(s, userId, claimedRole, o, c) ==
  /\ sockets[s].state = "open"
  /\ sockets[s].server = "plain"
  /\ IF userId = NoUser \/ claimedRole = ""
     THEN /\ sockets' = [sockets EXCEPT ![s].handled = TRUE, ![s].err = "Missing user data"]
          /\ emitted' = {Event("error", toSender, 0, "Missing user data", "")}
          /\ UNCHANGED <<userSockets, adminSockets>>
     ELSE /\ sockets' = [sockets EXCEPT
               ![s].userId = userId, ![s].role = claimedRole, ![s].handled = TRUE,
               ![s].rooms = @ \cup (IF o # NoOrder THEN {orderRoom(o)} ELSE {})
                              \cup (IF c # 0 THEN {chatRoom(c)} ELSE {})
                              \cup (IF claimedRole = "admin" THEN {adminRoom} ELSE {})]
          /\ IF claimedRole = "admin"
             THEN adminSockets' = adminSockets \cup {s} /\ UNCHANGED userSockets
             ELSE userSockets' = [userSockets EXCEPT ![userId] = s] /\ UNCHANGED adminSockets
          /\ emitted' = {}
  /\ last' = NoOutcome
  /\ UNCHANGED <<chats, orders, req, nextId, completed, orderDocs, accounts, now>>

\* "join-chat"
OnJoinChat(s, c) ==
  /\ sockets[s].state = "open"
  /\ sockets[s].server = "plain"
  /\ IF sockets[s].userId = NoUser
     THEN /\ sockets' = [sockets EXCEPT ![s].handled = TRUE, ![s].err = "Not authenticated"]
          /\ emitted' = {Event("error", toSender, 0, "Not authenticated", "")}
     ELSE /\ sockets' = [sockets EXCEPT ![s].rooms = @ \cup {chatRoom(c)}, ![s].handled = TRUE]
          /\ emitted' = {}
  /\ last' = NoOutcome
  /\ UNCHANGED <<chats, orders, req, nextId, completed, userSockets, adminSockets, orderDocs,
                 accounts, now>>

\* "leave-chat"
OnLeaveChat(s, c) ==
  /\ sockets[s].state = "open"
  /\ sockets[s].server = "plain"
  /\ sockets' = [sockets EXCEPT ![s].rooms = @ \ {chatRoom(c)}, ![s].handled = TRUE]
  /\ Quiet
  /\ UNCHANGED <<userSockets, adminSockets, orderDocs, accounts, now>>

\* "typing" of the jwt server: socket.to(room), and only with both ids given
OnTyping(s, c, o) ==
  /\ sockets[s].state = "open"
  /\ sockets[s].server = "jwt"
  /\ sockets' = [sockets EXCEPT ![s].handled = TRUE]
  /\ emitted' = IF c = 0 \/ o = NoOrder
                THEN {}
                ELSE {EventOf("user-typing", orderRoom(o), c, "", sockets[s].role, s, FALSE)}
  /\ last' = NoOutcome
  /\ UNCHANGED <<chats, orders, req, nextId, completed, userSockets, adminSockets, orderDocs,
                 accounts, now>>

\* "typing" of services/socketsever.ts: io.to(room), of the order or else of the chat
OnTypingRelay(s, c, o) ==
  /\ sockets[s].state = "open"
  /\ sockets[s].server = "plain"
  /\ sockets' = [sockets EXCEPT ![s].handled = TRUE]
  /\ emitted' = IF sockets[s].userId = NoUser THEN {}
                ELSE IF o # NoOrder
                THEN {EventOf("typing", orderRoom(o), c, "", sockets[s].role, s, TRUE)}
                ELSE IF c # 0
                THEN {EventOf("typing", chatRoom(c), c, "", sockets[s].role, s, TRUE)}
                ELSE {}
  /\ last' = NoOutcome
  /\ UNCHANGED <<chats, orders, req, nextId, completed, userSockets, adminSockets, orderDocs,
                 accounts, now>>

\* "new-message" of services/socketsever.ts, for the connection it arrives on:
\* refused without socket.data, else relayed to the room of the order or else of
\* the chat the client names
OnNewMessageFrom(s, c, o, content) ==
  /\ sockets[s].state = "open"
  /\ sockets[s].server = "plain"
  /\ sockets' = [sockets EXCEPT ![s].handled = TRUE]
  /\ emitted' = IF sockets[s].userId = NoUser \/ sockets[s].role = ""
                THEN {EventOf("error", toSender, 0, "Not authenticated", "", s, TRUE)}
                ELSE IF o # NoOrder
                THEN {EventOf("new-message", orderRoom(o), c, content, sockets[s].role, s, TRUE)}
                ELSE IF c # 0
                THEN {EventOf("new-message", chatRoom(c), c, content, sockets[s].role, s, TRUE)}
                ELSE {}
  /\ last' = NoOutcome
  /\ UNCHANGED <<chats, orders, req, nextId, completed, userSockets, adminSockets, orderDocs,
                 accounts, now>>

\* "message-read" of services/socketsever.ts: relayed to the room of the order or
\* else of the chat the client names, whatever socket.data holds
OnMessageRead(s, c, o) ==
  /\ sockets[s].state = "open"
  /\ sockets[s].server = "plain"
  /\ sockets' = [sockets EXCEPT ![s].handled = TRUE]
  /\ emitted' = IF o # NoOrder
                THEN {EventOf("message-read", orderRoom(o), c, "", sockets[s].role, s, TRUE)}
                ELSE IF c # 0
                THEN {EventOf("message-read", chatRoom(c), c, "", sockets[s].role, s, TRUE)}
                ELSE {}
  /\ last' = NoOutcome
  /\ UNCHANGED <<chats, orders, req, nextId, completed, userSockets, adminSockets, orderDocs,
                 accounts, now>>

\* "disconnect", and a rejected handshake being dropped: socket.io takes the
\* connection out of its rooms; services/socketsever.ts clears the registry entry
\* of the identity in socket.data, the jwt server tells everyone an admin left
OnDisconnect(s) ==
  /\ sockets[s].state # "closed"
  /\ sockets' = [sockets EXCEPT ![s] = NoSocket]
  /\ IF sockets[s].server = "plain" /\ sockets[s].userId # NoUser
     THEN IF sockets[s].role = "admin"
          THEN adminSockets' = adminSockets \ {s} /\ UNCHANGED userSockets
          ELSE /\ userSockets' = [userSockets EXCEPT ![sockets[s].userId] = 0]
               /\ UNCHANGED adminSockets
     ELSE UNCHANGED <<userSockets, adminSockets>>
  /\ emitted' = IF sockets[s].state = "open" /\ sockets[s].server = "jwt" /\ sockets[s].role = "admin"
                THEN {Event("admin-status-change", <<"all", 0>>, 0, "", "")}
                ELSE {}
  /\ last' = NoOutcome
  /\ UNCHANGED <<chats, orders, req, nextId, completed, orderDocs, accounts, now>>

\* ---------------------------------------------- multer
\* limits.files of the upload
MaxFiles == 3

\* what upload.array('attachments') passes to next(err): files over limits.files,
\* or a file over limits.fileSize
MulterErrors(files, oversize) ==
  (IF files > MaxFiles THEN {"Too many files"} ELSE {})
  \cup (IF oversize THEN {"File too large"} ELSE {})

\* upload.array turning a post-message request away: the handler does not run and
\* no error middleware is mounted, so Express answers the error with status 500
upload(r, who, c, files, oversize) ==
  /\ Slot(r)
  /\ MulterErrors(files, oversize) # {}
  /\ \E err \in MulterErrors(files, oversize) :
       Finish(r, Start("sendMessageToChatById", who, c, NoOrder), 500, err, FALSE, FALSE, <<>>)
  /\ emitted' = {}
  /\ UNCHANGED <<chats, orders, nextId, completed, sockets, userSockets, adminSockets,
                 orderDocs, accounts, now>>

\* ---------------------------------------------- the chat router
\* the handlers of controllers/chat.ts the router mounts
HttpOps ==
  {"createGeneralChat", "getChatById", "sendMessageToChatById", "markMessagesAsRead",
   "getAttachment", "getCustomerChats", "getAdminChats", "getChatByOrder", "sendMessage",
   "sendMessageWithAttachment"}

\* the handlers that check an argument of the request before they read req.user
ArgChecked == HttpOps \ {"getAttachment", "getCustomerChats", "getAdminChats"}

\* getCustomerChats: the chats whose customerId is the caller's id
getCustomerChats(r, who) ==
  /\ Slot(r)
  /\ Finish(r, Start("getCustomerChats", who, 0, NoOrder), 200, "", TRUE, FALSE, <<>>)
  /\ emitted' = {}
  /\ UNCHANGED <<chats, orders, nextId, completed, sockets, userSockets, adminSockets,
                 orderDocs, accounts, now>>

\* getAdminChats: every chat, for an admin
getAdminChats(r, who) ==
  /\ Slot(r)
  /\ IF role(who) # "admin"
     THEN Finish(r, Start("getAdminChats", who, 0, NoOrder), 403, "Unauthorized", FALSE, FALSE, <<>>)
     ELSE Finish(r, Start("getAdminChats", who, 0, NoOrder), 200, "", TRUE, FALSE, <<>>)
  /\ emitted' = {}
  /\ UNCHANGED <<chats, orders, nextId, completed, sockets, userSockets, adminSockets,
                 orderDocs, accounts, now>>

\* middlewares/auth.ts authToken turning a request away: no cookie, a token
\* jwt.verify throws on (caught: 500), or a token of no account; with the token of
\* an account it sets req.user and the handler runs for that identity
authToken(r, op, token) ==
  /\ Slot(r)
  /\ op \in HttpOps
  /\ accountOf(token) = NoUser
  /\ LET q == Start("authToken", NoUser, 0, NoOrder)
     IN IF token.kind = "missing"
        THEN Finish(r, q, 401, "No token found for authorization", FALSE, FALSE, <<>>)
        ELSE IF verify(token) = NoUser
        THEN Finish(r, q, 500, "Authentication failure", FALSE, FALSE, <<>>)
        ELSE Finish(r, q, 401, "No user found", FALSE, FALSE, <<>>)
  /\ emitted' = {}
  /\ UNCHANGED <<chats, orders, nextId, completed, sockets, userSockets, adminSockets,
                 orderDocs, accounts, now>>

\* route/chatroute.ts: every route hands the request straight to its handler, so
\* req.user is never set; the handler answers 400 when its argument check fails
\* and otherwise throws at req.user.id, which its catch answers with 500
router(r, op, token, argsOk) ==
  /\ Slot(r)
  /\ op \in HttpOps
  /\ LET q == Start(op, NoUser, 0, NoOrder)
     IN IF op \in ArgChecked /\ ~argsOk
        THEN Finish(r, q, 400, "required", FALSE, FALSE, <<>>)
        ELSE Finish(r, q, 500, "TypeError", FALSE, FALSE, <<>>)
  /\ emitted' = {}
  /\ UNCHANGED <<chats, orders, nextId, completed, sockets, userSockets, adminSockets,
                 orderDocs, accounts, now>>

\* ---------------------------------------------- closeChat / reopenChat
\* setOpen(chatId, open): the lifecycle transition of an admin, idempotent
setOpen(c, open) ==
  /\ chats[c].exists
  /\ chats' = [chats EXCEPT ![c].open = open]
  /\ emitted' = {}
  /\ last' = Outcome(Start(IF open THEN "reopenChat" ELSE "closeChat", "a1", c, NoOrder),
                     200, "", FALSE, TRUE, <<>>)
  /\ UNCHANGED <<orders, req, nextId, completed, sockets, userSockets, adminSockets,
                 orderDocs, accounts, now>>

\* ---------------------------------------------- the program
\* the handlers, run on the slots R for the identities U; W are the identities
\* that open chats and place orders
Create(R, W) ==
  \E r \in R, who \in W, message \in Contents : createGeneralChat(r, who, message)

Get(R, U) ==
  \/ \E r \in R, who \in U, c \in ChatIds : getChatById(r, who, c, DefaultPage, DefaultLimit)
  \/ \E r \in R, who \in U, c \in ChatIds, m \in 1..MaxIds, k \in Files :
       getAttachment(r, who, c, m, k)

\* F: the numbers of files uploaded with a message
Send(R, U, F) ==
  \/ \E r \in R, who \in U, c \in ChatIds, content \in Contents, files \in F :
       sendMessageToChatById_load(r, who, c, content, files)
  \/ \E r \in R : sendMessageToChatById_save(r)

MarkRead(R, U) ==
  \/ \E r \in R, who \in U, c \in ChatIds : markMessagesAsRead_load(r, who, c)
  \/ \E r \in R : markMessagesAsRead_save(r)

OrderOps(R, U, W) ==
  \/ \E r \in R, who \in U, o \in OrderIds : getChatByOrder_find(r, who, o)
  \/ \E r \in R : getChatByOrder_save(r)
  \/ \E r \in R, who \in U, o \in OrderIds, content \in Contents :
       sendMessage_find(r, who, o, content)
  \/ \E r \in R, who \in U, o \in OrderIds, content \in Contents, files \in Files :
       sendMessageWithAttachment_find(r, who, o, content, files)
  \/ \E r \in R : orderSend_save(r)
  \/ \E r \in R, customerId \in W, mailOk \in BOOLEAN : createOrder(r, customerId, mailOk)

\* P: the values of data.orderId, Q: the values of data.customerId
RtSend(R, U, P, Q) ==
  \/ \E r \in R, who \in U, c \in ChatIds, message \in Contents, dOrder \in P, dCustomer \in Q :
       OnSendMessage_load(r, who, c, message, dOrder, dCustomer)
  \/ \E r \in R : OnSendMessage_save(r)

RtMarkRead(R, U) ==
  \/ \E r \in R, who \in U, c \in ChatIds : OnMarkAsRead_load(r, who, c)
  \/ \E r \in R : OnMarkAsRead_update(r)

\* L: the roles a client claims, M: the contents it sends
Relays(U, L, M) ==
  \/ \E who \in U, claimedRole \in L, o \in OrderIds \cup {NoOrder},
        c \in ChatIds \cup {0}, content \in M :
       OnNewMessage(who, claimedRole, o, c, content)
  \/ \E who \in U, o \in OrderIds, c \in ChatIds, message \in M :
       OnSendMessageRelay(who, o, c, message)

\* P: the pages asked for, N: the page sizes
Pages(R, U, P, N) ==
  \E r \in R, who \in U, c \in ChatIds, page \in P, limit \in N :
    getChatById(r, who, c, page, limit)

\* post-message requests with up to one file more than multer admits
Uploads(R, U) ==
  \E r \in R, who \in U, c \in ChatIds, files \in 0..(MaxFiles + 1), oversize \in BOOLEAN :
    upload(r, who, c, files, oversize)

Faults(R, U) ==
  \/ \E r \in R, op \in {"send-message", "mark-as-read"}, who \in U, c \in ChatIds :
       OnFindRejects(r, op, who, c)
  \/ \E r \in R : OnWriteRejects(r)

Listing(R, U) ==
  \/ \E r \in R, who \in U : getCustomerChats(r, who)
  \/ \E r \in R, who \in U : getAdminChats(r, who)

\* requests arriving with the cookies T
Routes(R, T) ==
  \/ \E r \in R, op \in HttpOps, token \in T : authToken(r, op, token)
  \/ \E r \in R, op \in HttpOps, token \in T, argsOk \in BOOLEAN : router(r, op, token, argsOk)

Lifecycle ==
  \E c \in ChatIds, open \in BOOLEAN : setOpen(c, open)

\* the connections S, presenting the credentials T and naming the chats K
Gateway(S, T, K) ==
  \/ \E s \in S, token \in T : authMiddleware(s, token)
  \/ \E s \in S : joinUserChatRooms(s)
  \/ \E s \in S : joinUserChatRooms_catch(s)
  \/ \E s \in S, o \in OrderIds : OnJoinOrderChat(s, o)
  \/ \E s \in S, token \in T : OnConnection(s, token)
  \/ \E s \in S, userId \in Users \cup {NoUser}, claimedRole \in {"user", "admin"},
        o \in OrderIds \cup {NoOrder}, c \in K \cup {0} :
       OnAuthenticate(s, userId, claimedRole, o, c)
  \/ \E s \in S, c \in K : OnJoinChat(s, c)
  \/ \E s \in S, c \in K : OnLeaveChat(s, c)
  \/ \E s \in S, c \in K \cup {0}, o \in OrderIds \cup {NoOrder} : OnTyping(s, c, o)
  \/ \E s \in S, c \in K \cup {0}, o \in OrderIds \cup {NoOrder} : OnTypingRelay(s, c, o)
  \/ \E s \in S, c \in K \cup {0}, o \in OrderIds \cup {NoOrder} :
       OnNewMessageFrom(s, c, o, "hi")
  \/ \E s \in S, c \in K \cup {0}, o \in OrderIds \cup {NoOrder} : OnMessageRead(s, c, o)
  \/ \E s \in S : OnDisconnect(s)

\* every handler for every identity, each running to its end before the next
\* starts; u1 is the customer who opens chats and places orders
Next ==
  \/ Create({1}, {"u1"})
  \/ Get({1}, Users)
  \/ Send({1}, Users, Files)
  \/ MarkRead({1}, Users)
  \/ OrderOps({1}, Users, {"u1"})
  \/ RtSend({1}, Users, OrderIds \cup {NoOrder}, Customers \cup {NoUser})
  \/ RtMarkRead({1}, Users)
  \/ Relays({"u2"}, {"admin"}, {"hi"})

Spec == Init /\ [][Next]_vars

\* the store after u1 has opened a general chat with a first message
InitRace ==
  /\ sockets = [s \in SocketIds |-> NoSocket]
  /\ userSockets = [u \in Users |-> 0]
  /\ adminSockets = {}
  /\ orderDocs = [o \in OrderIds |-> NoOrderDoc]
  /\ accounts = [u \in Users |-> NoAccount]
  /\ now = 0
  /\ chats = [c \in ChatIds |->
               IF c = 1
               THEN [NoChat EXCEPT !.exists = TRUE, !.customerId = "u1",
                                   !.messages = <<createMessage(0, "user", "hi", 1)>>]
               ELSE NoChat]
  /\ orders = [o \in OrderIds |-> NoUser]
  /\ req = [r \in Reqs |-> Idle]
  /\ last = NoOutcome
  /\ emitted = {}
  /\ nextId = 1
  /\ completed = [c \in ChatIds |-> IF c = 1 THEN <<0>> ELSE <<>>]

\* the customer and the admin sending to that chat and marking it read, their
\* handlers interleaving at the awaits
NextRace ==
  \/ \E r \in Reqs, who \in {"u1", "a1"} : sendMessageToChatById_load(r, who, 1, "hi", 0)
  \/ \E r \in Reqs : sendMessageToChatById_save(r)
  \/ \E r \in Reqs, who \in {"u1", "a1"} : markMessagesAsRead_load(r, who, 1)
  \/ \E r \in Reqs : markMessagesAsRead_save(r)
  \/ \E r \in Reqs, who \in {"u1", "a1"}, o \in OrderIds :
       OnSendMessage_load(r, who, 1, "hi", o, "u1")
  \/ \E r \in Reqs : OnSendMessage_save(r)
  \/ \E r \in Reqs, who \in {"u1", "a1"} : OnMarkAsRead_load(r, who, 1)
  \/ \E r \in Reqs : OnMarkAsRead_update(r)

SpecRace == InitRace /\ [][NextRace]_vars

\* the order-keyed handlers of one customer, interleaving
NextOrders == OrderOps(Reqs, {"u1"}, {"u1"})

SpecOrders == Init /\ [][NextOrders]_vars

\* the HTTP chat endpoints, one request at a time, with and without a cookie
NextHttp ==
  \/ Routes({1}, Tokens)
  \/ \E message \in Contents \cup {" "} : createGeneralChat(1, "u1", message)
  \/ Get({1}, Users)
  \/ Listing({1}, Users)
  \/ Uploads({1}, Users)
  \/ Send({1}, Users, Files)
  \/ MarkRead({1}, Users)
  \/ OrderOps({1}, Users, {"u1"})

SpecHttp == Init /\ [][NextHttp]_vars

\* the store after u1 has opened a general chat and the admin has answered
InitPage ==
  /\ sockets = [s \in SocketIds |-> NoSocket]
  /\ userSockets = [u \in Users |-> 0]
  /\ adminSockets = {}
  /\ orderDocs = [o \in OrderIds |-> NoOrderDoc]
  /\ accounts = [u \in Users |-> NoAccount]
  /\ now = 0
  /\ chats = [c \in ChatIds |->
               IF c = 1
               THEN [NoChat EXCEPT !.exists = TRUE, !.customerId = "u1", !.adminId = "a1",
                                   !.messages = <<createMessage(-1, "user", "hi", 0),
                                                  createMessage(0, "admin", "hi", 0)>>]
               ELSE NoChat]
  /\ orders = [o \in OrderIds |-> NoUser]
  /\ req = [r \in Reqs |-> Idle]
  /\ last = NoOutcome
  /\ emitted = {}
  /\ nextId = 1
  /\ completed = [c \in ChatIds |-> IF c = 1 THEN <<-1, 0>> ELSE <<>>]

\* the customer and the admin sending to that chat and reading it page by page,
\* one request at a time
NextPage ==
  \/ \E who \in {"u1", "a1"}, content \in {"hi", " hi"} :
       sendMessageToChatById_load(1, who, 1, content, 0)
  \/ sendMessageToChatById_save(1)
  \/ Pages({1}, {"u1"}, 1..MaxPage, 1..MaxLimit)

SpecPage == InitPage /\ [][NextPage]_vars

\* the customer and the admin on the realtime handlers of one chat, their handlers
\* interleaving at the awaits, with store calls that may fail
NextFault ==
  \/ \E r \in Reqs, who \in {"u1", "a1"}, message \in {"hi", " "} :
       OnSendMessage_load(r, who, 1, message, "o1", "u1")
  \/ \E r \in Reqs : OnSendMessage_save(r)
  \/ \E r \in Reqs, who \in {"u1", "a1"} : OnMarkAsRead_load(r, who, 1)
  \/ \E r \in Reqs : OnMarkAsRead_update(r)
  \/ \E r \in Reqs, op \in {"send-message", "mark-as-read"}, who \in {"u1", "a1"} :
       OnFindRejects(r, op, who, 1)
  \/ \E r \in Reqs : OnWriteRejects(r)

SpecFault == InitRace /\ [][NextFault]_vars

\* connections being made, authenticated and dropped while u1 opens chats
NextGateway ==
  \/ Gateway({1}, Tokens, {1})
  \/ Create({1}, {"u1"})

SpecGateway == Init /\ [][NextGateway]_vars

\* chats being closed and reopened between the sends of their customer and of the
\* admin, over HTTP and over the gateway, each handler running to its end
NextOpen ==
  \/ Create({1}, {"u1"})
  \/ Send({1}, {"u1", "a1"}, {0})
  \/ OrderOps({1}, {"u1"}, {"u1"})
  \/ RtSend({1}, {"u1", "a1"}, OrderIds, {"u1"})
  \/ Lifecycle

SpecOpen == Init /\ [][NextOpen]_vars

\* ============================================================ properties
Appends == {"send-message", "sendMessageToChatById"}
Denials ==
  {"Unauthorized access to this chat", "Unauthorized access to this order",
   "Unauthorized to send to this chat", "Unauthorized to access this chat"}

\* what of a message never changes: everything but its read flag
Frozen(m) == [id |-> m.id, sender |-> m.sender, content |-> m.content, atts |-> m.atts]

\* the latest step ended a send to an existing chat with success
Sent == last.op \in Appends /\ last.resp = 200 /\ last.wrote

\* the latest step ended a handler of a non-admin on an existing chat of another customer
Foreign ==
  /\ last.op # "none"
  /\ last.chat \in ChatIds
  /\ chats[last.chat].exists
  /\ role(last.who) # "admin"
  /\ chats[last.chat].customerId # last.who

\* the latest step ended an order-keyed handler of a non-admin on the order of
\* another customer
ForeignOrder ==
  /\ last.op \in {"getChatByOrder", "sendMessage", "sendMessageWithAttachment"}
  /\ last.order \in OrderIds
  /\ role(last.who) # "admin"
  /\ orders[last.order] \notin {NoUser, last.who}

\* C1: a send to an existing chat that succeeds leaves the stored log equal to the
\* log stored just before its write, followed by its own message: whatever the
\* other party appended between this handler's load and its save is kept, so two
\* concurrent sends of the customer and the admin grow the log by exactly 2.
C1_BothPersist ==
  Sent => /\ IdSeq(chats[last.chat].messages) = last.pre \o <<last.mid>>
          /\ Len(last.pre) >= last.base

\* the admin's send ends after the customer's message was appended between the
\* admin's load and save: the log is 2 longer than the admin loaded it
C1_Witness ==
  /\ Sent
  /\ last.who = "a1"
  /\ Len(last.pre) = last.base + 1
  /\ Len(chats[last.chat].messages) = last.base + 2
  /\ chats[last.chat].messages[last.base + 1].sender = "user"
  /\ chats[last.chat].messages[last.base + 2].sender = "admin"

\* C2: every new-message event of a step is about a message that is in the stored
\* log of a chat of the room it goes to when the step ends.
C2_BroadcastCommitted ==
  \A e \in emitted :
    e.name = "new-message" =>
      \E c \in ChatIds :
        /\ chats[c].exists
        /\ e.chat = c \/ (e.chat = 0 /\ e.to = orderRoom(chats[c].orderId))
        /\ \E i \in 1..Len(chats[c].messages) :
             /\ chats[c].messages[i].content = trim(e.content)
             /\ chats[c].messages[i].sender = e.sender

\* C3: a handler of a non-admin on a chat of another customer, or on the order of
\* another customer, returns no chat data, and the step in which it ends leaves
\* every chat as it was.
C3_ForeignDenied ==
  [][(Foreign' \/ ForeignOrder') => (~last'.data /\ chats' = chats)]_vars

\* u2 asked for the chat of u1 and was refused
C3_Witness ==
  /\ Foreign
  /\ last.op = "getChatById"
  /\ last.who = "u2"
  /\ chats[last.chat].customerId = "u1"
  /\ last.err = "Unauthorized access to this chat"

\* C4: no handler run by an admin on an existing chat, or on the order of an existing
\* chat, ends with an access denial.
C4_AdminGranted ==
  \A c \in ChatIds :
    ( /\ chats[c].exists
      /\ role(last.who) = "admin"
      /\ \/ last.chat = c
         \/ last.order # NoOrder /\ chats[c].orderId = last.order )
    => last.err \notin Denials

\* C5: a connection whose credential resolves to no account is not open, is in no
\* room and has had no event handled; the identity of an open connection is the
\* account its credential resolves to, with that account's role.
C5_ServerResolvedIdentity ==
  \A s \in SocketIds :
    /\ accountOf(sockets[s].token) = NoUser =>
         /\ sockets[s].state # "open"
         /\ sockets[s].rooms = {}
         /\ ~sockets[s].handled
    /\ sockets[s].state = "open" =>
         /\ sockets[s].userId = accountOf(sockets[s].token)
         /\ sockets[s].role = role(accountOf(sockets[s].token))

\* C6: in every chat the stored log lists the messages in the order in which their
\* writes completed (a call completes when its write is committed).
C6_CompletionOrder ==
  \A c \in ChatIds : IdSeq(chats[c].messages) = completed[c]

\* a message created later completed, and is stored, before one created earlier
C6_Witness ==
  \E c \in ChatIds : \E i \in 1..Len(chats[c].messages) - 1 :
    /\ chats[c].messages[i].id > chats[c].messages[i + 1].id
    /\ completed[c][i] > completed[c][i + 1]

\* C7: a realtime send-message of a non-admin to a chat of another customer ends in
\* a step that emits one error event, to the sending connection, and nothing to any
\* room, and that leaves every chat as it was.
C7_DeniedSendSilent ==
  [][(Foreign' /\ last'.op = "send-message")
       => /\ emitted' = {Event("error", toSender, last'.chat, "", role(last'.who))}
          /\ last'.resp = 500
          /\ chats' = chats]_vars

\* u2's send-message to the chat of u1 failed the security check
C7_Witness ==
  /\ Foreign
  /\ last.op = "send-message"
  /\ last.err = "Unauthorized to send to this chat"
  /\ \A e \in emitted : e.to = toSender

\* C8: no order has two order-chats.
C8_OneChatPerOrder ==
  \A o \in OrderIds : Cardinality(OrderChats(o)) <= 1

\* C9: a stored chat has an orderId exactly when it is flagged isOrderChat.
C9_OrderIdIffOrderChat ==
  \A c \in ChatIds :
    chats[c].exists => ((chats[c].orderId # NoOrder) <=> chats[c].isOrderChat)

\* C10: no step removes a chat, shortens a log or changes the id, sender, content or
\* attachments of a stored message: the old log is a prefix of the new one up to
\* read flags.
C10_AppendOnly ==
  [][\A c \in ChatIds :
       chats[c].exists =>
         /\ chats'[c].exists
         /\ Len(chats'[c].messages) >= Len(chats[c].messages)
         /\ \A i \in 1..Len(chats[c].messages) :
              Frozen(chats'[c].messages[i]) = Frozen(chats[c].messages[i])]_vars

\* the first message, with its attachment, was marked read while two more were
\* appended, the second of them by a handler that loaded the chat before the first
C10_Witness ==
  /\ Sent
  /\ Len(chats[1].messages) = 3
  /\ Len(last.pre) > last.base
  /\ chats[1].messages[1].read
  /\ Frozen(chats[1].messages[1]) = Frozen(createMessage(0, "user", "hi", 1))

\* ------------------------------------------------------------ mark read
MarkOps == {"mark-as-read", "markMessagesAsRead"}

\* the latest step ended a mark-read with success
MarkDone == last.op \in MarkOps /\ last.resp = 200

\* the role whose messages the reader of the latest step marks
Other == IF role(last.who) = "admin" THEN "user" ELSE "admin"

\* C11: a mark-read that ends with success leaves no unread message of the other
\* role, and one that finds none flips nothing: it leaves every chat as it was and
\* its count is 0. So the second of two calls in a row flips nothing.
C11_MarkReadIdempotent ==
  [][MarkDone' =>
       /\ \A i \in 1..Len(chats'[last'.chat].messages) :
            chats'[last'.chat].messages[i].sender = Other' =>
              chats'[last'.chat].messages[i].read
       /\ (\A i \in 1..Len(chats[last'.chat].messages) :
             chats[last'.chat].messages[i].sender = Other' =>
               chats[last'.chat].messages[i].read)
          => (chats' = chats /\ ~last'.wrote /\ last'.count = 0)]_vars

\* a mark-read found a message an earlier one had flipped, and flipped nothing
C11_Witness ==
  /\ MarkDone
  /\ ~last.wrote
  /\ last.count = 0
  /\ \E i \in 1..Len(chats[last.chat].messages) :
       chats[last.chat].messages[i].sender = Other /\ chats[last.chat].messages[i].read

\* C12: a mark-read that ends with success emits messages-read exactly when it
\* flipped a message.
C12_ReadBroadcastIffFlipped ==
  MarkDone => ((\E e \in emitted : e.name = "messages-read") <=> last.wrote)

Sends == Appends \cup {"sendMessage", "sendMessageWithAttachment"}

\* the latest step ended a send, on any path, with success
SentAny == last.op \in Sends /\ last.resp = 200 /\ last.wrote

\* C14: a send to a stored chat leaves it open when it was open or the sender is not
\* an admin, and closed when it was closed and the sender is an admin.
C14_ReopenOnCustomerSend ==
  [][(SentAny' /\ chats[last'.chat].exists)
       => chats'[last'.chat].open = (chats[last'.chat].open \/ role(last'.who) # "admin")]_vars

\* C15: a stored chat has an adminId exactly when its log holds a message of an
\* admin, and no step changes an adminId that is set.
C15_AdminIdOnFirstReply ==
  [][\A c \in ChatIds :
       chats'[c].exists =>
         /\ (chats'[c].adminId # NoUser) <=>
              (\E i \in 1..Len(chats'[c].messages) : chats'[c].messages[i].sender = "admin")
         /\ chats[c].adminId # NoUser => chats'[c].adminId = chats[c].adminId]_vars

\* ------------------------------------------------------------ rooms
\* the chats an identity is a party to: its own, every chat for an admin
PartyTo(userId, r) ==
  {c \in ChatIds : chats[c].exists /\ (r = "admin" \/ chats[c].customerId = userId)}

\* C16: when the bootstrap of a connection ends, the connection is in its personal
\* room, in the admin room if it is an admin's, and in the room the new-message
\* events of each chat it is then a party to are broadcast to.
C16_BootstrapRooms ==
  [][\A s \in SocketIds :
       (sockets[s].joining /\ sockets'[s].state = "open" /\ ~sockets'[s].joining)
       => /\ userRoom(sockets'[s].userId) \in sockets'[s].rooms
          /\ sockets'[s].role = "admin" => adminRoom \in sockets'[s].rooms
          /\ \A c \in PartyTo(sockets'[s].userId, sockets'[s].role) :
               roomName(chats[c], c) \in sockets'[s].rooms]_vars

\* C17: the new-message event of a send that succeeds goes to the room of the
\* stored chat the message was appended to, and to no other room.
C17_BroadcastToChatRoom ==
  SentAny =>
    \A e \in emitted :
      e.name = "new-message" => e.to = roomName(chats[last.chat], last.chat)

\* C18: a realtime send-message that succeeds emits exactly one
\* new-chat-notification: to the admin room when the sender is a customer, to the
\* personal room of the chat's customer when the sender is an admin.
C18_NotifyOtherParty ==
  (last.op = "send-message" /\ last.resp = 200) =>
    {e.to : e \in {x \in emitted : x.name = "new-chat-notification"}}
      = {IF role(last.who) = "admin" THEN userRoom(chats[last.chat].customerId)
         ELSE adminRoom}

\* the typing events of the two servers
Typing(E) == {e \in E : e.name \in {"typing", "user-typing"}}

\* C19: a step that emits a typing event leaves the stored chats and orders as
\* they were, and the event is delivered to members of its room other than the
\* connection that sent it, never to that connection.
C19_TypingNotEchoed ==
  [][Typing(emitted') # {}
       => /\ chats' = chats
          /\ orders' = orders
          /\ \A e \in Typing(emitted') :
               sockets'[e.src].state = "open" => e.src \notin Receivers(e)']_vars

\* C20: when a connection disconnects it is left in no room, the user registry
\* has no entry holding it and the admin registry does not contain it.
C20_DisconnectClearsAll ==
  [][\A s \in SocketIds :
       (sockets[s].state = "open" /\ sockets'[s].state = "closed")
       => /\ sockets'[s].rooms = {}
          /\ s \notin adminSockets'
          /\ \A u \in Users : userSockets'[u] # s]_vars

\* ------------------------------------------------------------ HTTP endpoints
\* C21: every handler of a chat endpoint runs for an authenticated identity, and a
\* caller who is not a party to the chat or the order it names is given no chat
\* data and writes nothing.
C21_AuthenticatedOnly ==
  /\ last.op \in HttpOps => last.who \in Users
  /\ (Foreign \/ ForeignOrder) => ~last.data /\ ~last.wrote

\* the latest step ended a handler that named a chat or an order not in the store
Missing ==
  /\ last.op \in HttpOps
  /\ \/ last.chat \in ChatIds /\ ~chats[last.chat].exists
     \/ last.order \in OrderIds /\ orders[last.order] = NoUser

\* C22: an HTTP handler whose arguments pass its checks answers 403 to a caller
\* without access to the chat or order and 404 when the chat or order does not
\* exist, never 500 and never a success.
C22_DenialStatus ==
  last.resp # 400 =>
    /\ (Foreign \/ ForeignOrder) => last.resp = 403
    /\ Missing => last.resp = 404

\* C23: createGeneralChat with an empty first message answers 400, creates no chat
\* and emits nothing; with any other first message it answers 201 and adds one chat
\* that was not in the store, of the caller, with isOrderChat false and a log of
\* exactly that message, from sender user and unread, leaving the other chats alone.
C23_CreateOrReject ==
  [][\A message \in Contents \cup {" "} :
       createGeneralChat(1, "u1", message) =>
         IF message = ""
         THEN last'.resp = 400 /\ chats' = chats /\ emitted' = {}
         ELSE /\ last'.resp = 201
              /\ last'.chat \in ChatIds
              /\ ~chats[last'.chat].exists
              /\ chats'[last'.chat].exists
              /\ chats'[last'.chat].customerId = "u1"
              /\ ~chats'[last'.chat].isOrderChat
              /\ Len(chats'[last'.chat].messages) = 1
              /\ chats'[last'.chat].messages[1].sender = "user"
              /\ chats'[last'.chat].messages[1].content = message
              /\ ~chats'[last'.chat].messages[1].read
              /\ \A d \in ChatIds \ {last'.chat} : chats'[d] = chats[d]]_vars

\* the n most recent messages of a log, in log order
Recent(log, n) ==
  SubSeq(log, (IF n > Len(log) THEN 0 ELSE Len(log) - n) + 1, Len(log))

\* the latest step ended a customer's sendMessageToChatById with success
CustomerSent ==
  last.op = "sendMessageToChatById" /\ last.resp = 200 /\ role(last.who) # "admin"

\* the latest step ended a getChatById of the first page with success
FirstPage == last.op = "getChatById" /\ last.resp = 200 /\ last.page = 1

\* C24 as stated: the message a customer's send stores last has the content given.
C24_RoundTripVerbatim ==
  [][\A r \in Reqs :
       (Saving(r, {"sendMessageToChatById"}) /\ CustomerSent')
       => LET log == chats'[last'.chat].messages
          IN log[Len(log)].content = req[r].delta.push[1].content]_vars

\* a customer's send stores, last in the log, its message with sender user, the
\* given content trimmed and read false
StoresGiven ==
  \A r \in Reqs :
    (Saving(r, {"sendMessageToChatById"}) /\ CustomerSent')
    => LET log == chats'[last'.chat].messages
       IN /\ Len(log) = Len(chats[last'.chat].messages) + 1
          /\ log[Len(log)].id = last'.mid
          /\ log[Len(log)].sender = "user"
          /\ log[Len(log)].content = trim(req[r].delta.push[1].content)
          /\ ~log[Len(log)].read

\* a getChatById of page 1 returns the min(limit, log length) most recent messages
\* in log order and changes no chat
ReturnsRecent ==
  FirstPage' => /\ last'.list = Recent(chats'[last'.chat].messages, last'.limit)
                /\ chats' = chats

\* C24: a customer's send stores its message last, with the given content trimmed,
\* and a getChatById of page 1 returns the most recent messages in log order, so
\* after the send the last element returned is that message, unread.
C24_RoundTrip == [][StoresGiven /\ ReturnsRecent]_vars

\* a page of 2 read when the log holds 3 messages, the last one just sent by u1
\* with white space around its content
C24_Witness ==
  /\ FirstPage
  /\ last.limit = 2
  /\ Len(chats[1].messages) = 3
  /\ Len(last.list) = 2
  /\ last.list[2].id = 1
  /\ last.list[2].sender = "user"

\* C25: a post-message request with more than 3 files, or with a file over the
\* size limit, is answered 400; it stores nothing and emits nothing.
C25_UploadRejected ==
  [][\A who \in Users, c \in ChatIds, files \in 0..(MaxFiles + 1), oversize \in BOOLEAN :
       ((files > 3 \/ oversize) /\ upload(1, who, c, files, oversize))
       => /\ last'.resp = 400
          /\ chats' = chats
          /\ emitted' = {}]_vars

\* ------------------------------------------------------------ realtime failures
\* the latest step ended a realtime handler in its catch block
Caught ==
  /\ last.op \in {"send-message", "mark-as-read"}
  /\ last.err \in {"Failed to send message", "Failed to mark messages as read"}

\* C26: when a store call of a realtime send-message or mark-as-read fails, the
\* only event emitted is an error to the connection of the handler; nothing is
\* stored, no connection is dropped, and the handler's slot is free again while
\* every other handler in flight stays as it was.
C26_FailureToSenderOnly ==
  [][Caught'
       => /\ emitted' # {}
          /\ \A e \in emitted' : e.name = "error" /\ e.to = toSender
          /\ chats' = chats
          /\ sockets' = sockets
          /\ \E r \in Reqs : /\ req'[r] = Idle
                             /\ \A x \in Reqs \ {r} : req'[x] = req[x]]_vars

\* the write of the admin's mark-as-read has failed while a send of the customer
\* is waiting for its save
C26_Witness ==
  /\ Caught
  /\ last.op = "mark-as-read"
  /\ last.who = "a1"
  /\ emitted = {Event("error", toSender, 1, "", "admin")}
  /\ \E r \in Reqs : req[r].pc = "saving" /\ req[r].op = "send-message" /\ req[r].who = "u1"

C28_HandledAfterBootstrap ==
  [][\A s \in SocketIds, c \in ChatIds \cup {0}, o \in OrderIds \cup {NoOrder} :
       OnTyping(s, c, o) => ~sockets[s].joining]_vars

\* the rooms the events of a stored chat go to: its chat room and, when it has an
\* order, the room of the order
RoomsOf(c) ==
  {chatRoom(c)} \cup (IF chats[c].orderId # NoOrder THEN {orderRoom(chats[c].orderId)} ELSE {})

\* C29: an open connection whose role is not admin is in a room of a stored chat
\* only if the chat's customer is the identity of the connection.
C29_OwnRoomsOnly ==
  \A s \in SocketIds :
    (sockets[s].state = "open" /\ sockets[s].role # "admin")
    => \A c \in ChatIds :
         (chats[c].exists /\ RoomsOf(c) \cap sockets[s].rooms # {})
         => chats[c].customerId = sockets[s].userId

\* C30: a connection is in the admin room, or in the admin registry, only if the
\* account of the identity it holds has the role admin.
C30_AdminRoomAdminsOnly ==
  \A s \in SocketIds :
    (adminRoom \in sockets[s].rooms \/ s \in adminSockets)
    => sockets[s].userId \in Admins

\* an admin updating the status and the payment of the order u1 placed, and
\* confirming its payment, the handlers interleaving
NextStatus ==
  \/ \E r \in Reqs, mailOk \in BOOLEAN : createOrder(r, "u1", mailOk)
  \/ \E r \in Reqs, o \in OrderIds, status \in Statuses \cup {""},
        paymentStatus \in {"", "received"} :
       updateOrder_find(r, "a1", o, status, paymentStatus)
  \/ \E r \in Reqs, o \in OrderIds : confirmPayment_find(r, "a1", o)
  \/ \E r \in Reqs : orderUpdate(r)

SpecStatus == Init /\ [][NextStatus]_vars

\* logins to the account of u1 with the right and with a wrong password, one at
\* a time, while time passes
NextLogin ==
  \/ \E valid \in BOOLEAN : login_find(1, "u1", valid)
  \/ login_save(1)
  \/ Tick

SpecLogin == Init /\ [][NextLogin]_vars

\* ------------------------------------------------------------ the registries
\* connections of services/socketsever.ts that authenticate once, each with the
\* role of its account, and disconnect in any order
NextRegistry ==
  \/ \E s \in SocketIds : OnConnection(s, NoToken)
  \/ \E s \in SocketIds, userId \in Users :
       /\ sockets[s].userId = NoUser
       /\ OnAuthenticate(s, userId, role(userId), NoOrder, 0)
  \/ \E s \in SocketIds, c \in {1} : OnJoinChat(s, c)
  \/ \E s \in SocketIds : OnDisconnect(s)

SpecRegistry == Init /\ [][NextRegistry]_vars

\* the connection holds no identity: it has not authenticated
Anonymous(s) == sockets[s].state = "open" /\ sockets[s].userId = NoUser

\* C31: a step of a connection that holds no identity emits nothing but to that
\* connection itself, and while a connection holds no identity its rooms stay as
\* they are.
C31_AnonymousInert ==
  [][/\ \A e \in emitted' :
          (e.src \in SocketIds /\ Anonymous(e.src)) => e.to = toSender
     /\ \A s \in SocketIds :
          (Anonymous(s) /\ Anonymous(s)') => sockets'[s].rooms = sockets[s].rooms]_vars

\* C32: every new-chat event, of a general chat and of the chat made with an
\* order, is sent to the room of the administrators and to no one else.
C32_NewChatToAdminRoom ==
  \A e \in emitted : e.name = "new-chat" => e.to = adminRoom

\* the order and the chats stored for it
Persisted(o) == orders[o] # NoUser
ChatsOf(o) == {c \in ChatIds : chats[c].exists /\ chats[c].orderId = o}

\* C37: a createOrder that answers with a failure has stored neither the order nor
\* its chat and has sent no new-chat event, and one that answers 201 has stored
\* both.
C37_CreateOrderFaithful ==
  [][\A o \in OrderIds :
       (last'.op = "createOrder" /\ last'.order = o) =>
          IF last'.resp = 201
          THEN Persisted(o)' /\ ChatsOf(o)' # {}
          ELSE /\ ~Persisted(o)' /\ ChatsOf(o)' = {}
               /\ \A e \in emitted' : e.name # "new-chat"]_vars

\* the live connections that authenticated as user u without the admin role
LiveOf(u) ==
  {s \in SocketIds : /\ sockets[s].state = "open"
                     /\ sockets[s].userId = u
                     /\ sockets[s].role # "admin"}

\* C33: the user registry has an entry for a user exactly when that user has a
\* live authenticated connection that is not an admin's, and the entry is one of
\* those connections.
C33_RegistryTracksLive ==
  \A u \in Users :
    /\ userSockets[u] # 0 <=> LiveOf(u) # {}
    /\ userSockets[u] # 0 => userSockets[u] \in LiveOf(u)

\* ------------------------------------------------------------ read flags
\* C34: no step takes the read flag of a stored message back: a message stored as
\* read is still stored, and read, after every step, whatever the handlers that
\* loaded the chat before it was marked go on to save.
C34_ReadMonotone ==
  [][\A c \in ChatIds : \A i \in 1..Len(chats[c].messages) :
       chats[c].messages[i].read =>
         /\ i <= Len(chats'[c].messages)
         /\ chats'[c].messages[i].id = chats[c].messages[i].id
         /\ chats'[c].messages[i].read]_vars

\* a mark-read has just stored the first message as read while another handler,
\* which loaded the chat before, is about to save its copy where it is unread
C34_Witness ==
  /\ MarkDone /\ last.wrote
  /\ chats[1].messages[1].read
  /\ \E r \in Reqs :
       /\ req[r].pc = "saving"
       /\ ~req[r].local.messages[1].read
       /\ 1 \in req[r].delta.readIdx \/ req[r].delta.push # <<>>

\* ------------------------------------------------------------ pages
\* the messages of a log at positions k*n down to (k-1)*n+1 counted from the
\* newest, in log order: none when the log has fewer than (k-1)*n+1 messages
Window(log, k, n) ==
  LET to == Len(log) - (k - 1) * n
      from == IF Len(log) - k * n < 0 THEN 1 ELSE Len(log) - k * n + 1
  IN IF to < 1 THEN <<>> ELSE SubSeq(log, from, to)

\* C35: a getChatById of page k with page size n returns the messages at positions
\* k*n down to (k-1)*n+1 counted from the newest, in log order; so the pages are
\* disjoint runs of the log that cover it once, the oldest page holding the rest
\* when the length is not a multiple of n.
C35_PagesPartitionLog ==
  (last.op = "getChatById" /\ last.resp = 200)
  => last.list = Window(chats[last.chat].messages, last.page, last.limit)

\* ------------------------------------------------------------ order status
\* the latest step turned an updateOrder or a confirmPayment away
Rejected == last.op \in {"updateOrder", "confirmPayment"} /\ last.resp = 400

\* C36: the status of an order changes only along the edges of validTransitions,
\* so cancelled and refunded are never left, whatever the interleaving of
\* updateOrder and confirmPayment; a rejected call leaves every order as it was.
C36_StatusEdges ==
  [][/\ \A o \in OrderIds :
          (orderDocs[o].status # "none" /\ orderDocs'[o].status # orderDocs[o].status)
          => orderDocs'[o].status \in validTransitions(orderDocs[o].status)
     /\ Rejected' => orderDocs' = orderDocs]_vars

\* ------------------------------------------------------------ login lockout
\* the login of slot r ends in this step with the given status
LoginEnds(r, status) ==
  /\ Saving(r, {"login"})
  /\ req'[r].pc = "idle"
  /\ last'.op = "login" /\ last'.resp = status

\* the failed login that brings the counter to MaxAttempts locks for LockTime
FifthLocks ==
  \A r \in Reqs :
    (LoginEnds(r, 400) /\ accounts'[req[r].who].loginAttempts = MaxAttempts)
    => accounts'[req[r].who].lockUntil = now + LockTime

\* a login made while the lock is in force is refused, whatever the password, and
\* changes no account
LockedRefused ==
  \A r \in Reqs, u \in Users, valid \in BOOLEAN :
    (locked(accounts[u]) /\ login_find(r, u, valid))
    => (last'.resp = 423 /\ accounts' = accounts)

\* a successful login leaves the counter at 0 and no lock
SuccessResets ==
  \A r \in Reqs :
    LoginEnds(r, 200) => accounts'[req[r].who] = NoAccount

\* a failed login that found a lock that had expired is the first of five: it
\* leaves the account unlocked
ExpiryRestores ==
  \A r \in Reqs :
    (LoginEnds(r, 400) /\ req[r].acct.lockUntil # 0)
    => LET user == accounts'[req[r].who]
       IN ~(user.lockUntil # 0 /\ user.lockUntil > now')

\* C38: the fifth failed login in a row locks the account for LockTime; while the
\* lock is in force every login is refused and changes nothing; a successful
\* login clears counter and lock; after a lock has expired five failed logins are
\* allowed again before the account is locked anew.
C38_LoginLockout == [][FifthLocks /\ LockedRefused /\ SuccessResets /\ ExpiryRestores]_vars

====
